---- MODULE Spec2Model ----
(***************************************************************************)
(* GPS Time Sync (src/pygpstime.py): the acquisition worker                *)
(* (GpsTimeSyncApp.gps_thread_loop) and the handlers of the main (Tk)      *)
(* context (connect_to_gps, disconnect_from_gps, on_close, sync_time,      *)
(* auto_sync_callback, the auto-connect check button).                     *)
(*                                                                         *)
(* The main context runs one handler at a time; workers are Python threads *)
(* that interleave with it and with each other between statements.  A      *)
(* blocking call (readline, SetSystemTime, Thread.join, serial.Serial,     *)
(* time.sleep, a modal error box) is a position of its own, and no other   *)
(* handler starts while the main context is in one.  Calls on Tk variables *)
(* and on the status box are taken as atomic and as succeeding.  The       *)
(* display loop (lines 348-357) only reads and is left out.                *)
(*                                                                         *)
(* A decoded UTC instant is a number: the n-th fix the device delivers     *)
(* carries instant n (GPS time only grows).  Where the value of the        *)
(* offset is not looked at, the stored offset is represented by the        *)
(* instant of the fix it was computed from.                                *)
(*                                                                         *)
(* Four specifications share the variables:                                *)
(*   Spec       the threads and the handlers of the main context, with the *)
(*              interval and the zone setting left as configured;          *)
(*   SpecSync   the same with the Apply button and the local-time check    *)
(*              button, for a single worker;                               *)
(*   SpecDecode the body of the loop on the text of one line;              *)
(*   SpecClock  the tick arithmetic of the reads and the offset.           *)
(***************************************************************************)
EXTENDS Integers, FiniteSets

\* Threads connect_to_gps may create, Serial objects the workers may
\* construct, fixes the device may deliver.
MaxWorkers == 2
MaxHandles == 2
MaxFix == 2
\* Periodic timers root.after may hold pending at once.
MaxTimers == 2
\* Dates 1..MaxDate and times of day 0..MaxTime (0 is midnight) that the
\* date and time fields of a sentence may hold.
MaxDate == 2
MaxTime == 1

None == 0
Workers == 1..MaxWorkers
Handles == 1..MaxHandles
Fixes == 1..MaxFix

\* What one readline() can deliver once stripped: nothing (the read timed
\* out), a line of another sentence type, and the RMC lines: one
\* pynmea2.parse rejects, one with a field that does not convert, one whose
\* validity flag is not set, one without date or time, and a fix.
LineKinds == {"empty", "other", "badsum", "badfield", "invalid", "nodate",
              "fix"}
\* The lines that lines 281-294 and 339-343 drop without any effect.
Skipped == {"empty", "other", "invalid", "nodate"}
\* No line in hand; a line of kind k, which for a fix carries UTC instant n.
NoLine == [kind |-> "none", utc |-> 0]
Line(k, n) == [kind |-> k, utc |-> IF k = "fix" THEN n ELSE 0]

VARIABLES
  app_running,        \* self.app_running
  keep_reading,       \* self.keep_reading
  read_thread,        \* self.read_thread: None or a worker
  ser,                \* self.ser: None or a Serial object
  is_open,            \* the Serial objects whose is_open is true
  last_gps_utc,       \* self.last_gps_utc
  gps_time_str,       \* self.gps_time_str: None stands for "--:--:--"
  last_delta_sec,     \* self.last_delta_sec
  auto_connect_var,   \* self.auto_connect_var
  use_local_time_var, \* self.use_local_time_var
  config_interval,    \* self.config["sync_interval_minutes"]
  timers,             \* root.after(interval_ms, auto_sync_callback) pending
  mainPc,             \* position of the main context
  mainCtx,            \* the handler the main context is running
  sync_utc,           \* local gps_utc of the main context's sync_time
  main_call,          \* the clock-setting call of the main context's sync_time
  pc,                 \* position of each worker
  first_valid_time_received, \* local of gps_thread_loop
  gps_utc,            \* local of gps_thread_loop
  line,               \* local of gps_thread_loop
  rdh,                \* the Serial object a worker's readline() is blocked on
  worker_call,        \* the clock-setting call of a worker's sync_time
  nworkers,           \* threads created so far
  nhandles,           \* Serial objects constructed so far
  nfix,               \* fixes decoded so far
  syncs,              \* history: sync_time calls made by each worker
  fresh,              \* history: no fix decoded yet since the worker's last open
  stop_called,        \* history: disconnect_from_gps or on_close was called
  stopped_reader,     \* history: the worker that was inside readline() when
                      \* the latest stop was requested, if one was
  tried,              \* history: the worker has attempted an open since its
                      \* last sleep(3)
  raw,                \* the text readline() returned, stripped
  outcome,            \* history: what the loop body did with raw
  perf_base,          \* self.perf_base
  time_base,          \* self.time_base
  utc_base,           \* history: the UTC instant the system clock showed when
                      \* time_base was read
  perf,               \* time.perf_counter()
  t_start,            \* local of gps_thread_loop
  t_end,              \* local of gps_thread_loop
  t_mid,              \* local of gps_thread_loop, kept as twice its value
  system_time_at_mid, \* local of gps_thread_loop
  prev_mid,           \* history: t_mid and system_time_at_mid of the read
                      \* before the latest
  clock_err           \* by how much syncs have moved the system clock

vars == <<app_running, keep_reading, read_thread, ser, is_open, last_gps_utc,
          gps_time_str, last_delta_sec, auto_connect_var, use_local_time_var,
          config_interval, timers, mainPc, mainCtx, sync_utc, main_call, pc,
          first_valid_time_received, gps_utc, line, rdh, worker_call,
          nworkers, nhandles, nfix, syncs, fresh, stop_called,
          stopped_reader, tried, raw, outcome, perf_base, time_base,
          utc_base, perf, t_start, t_end, t_mid, system_time_at_mid,
          prev_mid, clock_err>>

shared == <<app_running, keep_reading, read_thread, last_gps_utc,
            gps_time_str, last_delta_sec, auto_connect_var,
            use_local_time_var, config_interval>>
mainLocal == <<timers, mainPc, mainCtx, sync_utc, main_call>>
counters == <<nworkers, nhandles, nfix>>
history == <<syncs, fresh, stop_called, stopped_reader, tried>>
workerLocal == <<first_valid_time_received, gps_utc, line, rdh, worker_call>>
\* The text of the line in hand and the tick arithmetic of a read, which
\* the specifications of the decoder and of the clock bridge look into.
bridge == <<perf_base, time_base, utc_base, perf, t_start, t_end, t_mid,
            system_time_at_mid, prev_mid, clock_err>>
detail == <<raw, outcome, bridge>>

\* Thread.is_alive()
is_alive(w) == w # None /\ pc[w] \notin {"unborn", "dead"}

\* No clock-setting call; a call of operation op with date-time t, whose
\* result is "pending" until the operating system returns.
NoCall == [op |-> "none", t |-> 0, result |-> "none"]
Call(o, v) == [op |-> o, t |-> v, result |-> "pending"]

\* No line in hand, and the anchor and the ticks left out of account.
NoRaw == [id |-> "none", sum |-> FALSE, status |-> "none", date |-> "none",
          time |-> "none"]
\* No read made yet.
NoMid == [t_mid |-> 0, at |-> 0]

InitLine ==
  /\ raw = NoRaw
  /\ outcome = "none"

InitBridge ==
  /\ perf_base = 0
  /\ time_base = 0
  /\ utc_base = 0
  /\ perf = 0
  /\ t_start = 0
  /\ t_end = 0
  /\ t_mid = 0
  /\ system_time_at_mid = 0
  /\ prev_mid = NoMid
  /\ clock_err = 0

InitDetail == InitLine /\ InitBridge

\* __init__, lines 106-120 and 128-129: no thread, no handle, no fix; the
\* display loop and one periodic timer are scheduled; auto_connect_sync
\* comes from config.json, use_local_time and sync_interval_minutes have
\* their defaults (lines 88-89).
InitApp ==
  /\ app_running = TRUE
  /\ keep_reading = FALSE
  /\ read_thread = None
  /\ ser = None
  /\ is_open = {}
  /\ last_gps_utc = None
  /\ gps_time_str = None
  /\ last_delta_sec = None
  /\ auto_connect_var \in BOOLEAN
  /\ use_local_time_var = TRUE
  /\ config_interval = "30"
  /\ timers = 1
  /\ mainPc = "idle"
  /\ mainCtx = "none"
  /\ sync_utc = None
  /\ main_call = NoCall
  /\ first_valid_time_received = [w \in Workers |-> FALSE]
  /\ gps_utc = [w \in Workers |-> None]
  /\ line = [w \in Workers |-> NoLine]
  /\ rdh = [w \in Workers |-> None]
  /\ worker_call = [w \in Workers |-> NoCall]
  /\ nhandles = 0
  /\ nfix = 0
  /\ syncs = [w \in Workers |-> 0]
  /\ fresh = [w \in Workers |-> FALSE]
  /\ stopped_reader = None
  /\ tried = [w \in Workers |-> FALSE]

\* The state after construction: no thread was created yet.
Init ==
  /\ InitApp
  /\ InitDetail
  /\ pc = [w \in Workers |-> "unborn"]
  /\ nworkers = 0
  /\ stop_called = FALSE

(***************************************************************************)
(* The process's time zone, and the call sync_time makes.                  *)
(***************************************************************************)

\* The zone of the process: standard time, and daylight saving time from
\* instant DstStart on, in the unit of the instants (an hour).
StdOffset == 1
DstOffset == 2
DstStart == 2
utcoffset(u) == IF u < DstStart THEN StdOffset ELSE DstOffset

\* A conversion that leaves the UTC value as it is.
astimezone_naive_NoShift(u) == u

\* Lines 381-382: naive UTC -> offset-aware UTC -> local zone -> naive.
astimezone_naive(u) == u + utcoffset(u)

\* Lines 379-387: the operation sync_time calls and its argument.
SetTimeCall(u) ==
  IF use_local_time_var
    THEN Call("local", astimezone_naive(u))
    ELSE Call("utc", u)

(***************************************************************************)
(* The acquisition worker: gps_thread_loop, lines 249-325.                 *)
(***************************************************************************)

\* Nothing runs once the process has exited (daemon threads, line 226).
Running == mainPc # "exited"

\* A handler that ends the loop instead of retrying.
ReadError_Exit(w) ==
  /\ is_open' = is_open \ {ser}
  /\ ser' = None
  /\ pc' = [pc EXCEPT ![w] = "dead"]

\* Lines 316-325: the handler of any exception of the loop body closes
\* self.ser if there is one, clears it and goes to sleep(3).
ReadError(w) ==
  /\ is_open' = is_open \ {ser}
  /\ ser' = None
  /\ pc' = [pc EXCEPT ![w] = "sleep"]

\* Lines 262-263 and 277-278: the loop condition; then, with self.ser open,
\* readline() is entered on it, and otherwise the device is opened.  The
\* locals of a thread that has returned are gone.
LoopTop(w) ==
  /\ Running
  /\ pc[w] = "top"
  /\ IF ~(app_running /\ keep_reading)
       THEN /\ pc' = [pc EXCEPT ![w] = "dead"]
            /\ first_valid_time_received' =
                 [first_valid_time_received EXCEPT ![w] = FALSE]
            /\ fresh' = [fresh EXCEPT ![w] = FALSE]
            /\ tried' = [tried EXCEPT ![w] = FALSE]
            /\ UNCHANGED rdh
       ELSE IF ser = None \/ ser \notin is_open
         THEN /\ pc' = [pc EXCEPT ![w] = "open"]
              /\ UNCHANGED <<rdh, first_valid_time_received, fresh, tried>>
         ELSE /\ pc' = [pc EXCEPT ![w] = "in_read"]
              /\ rdh' = [rdh EXCEPT ![w] = ser]
              /\ UNCHANGED <<first_valid_time_received, fresh, tried>>
  /\ UNCHANGED <<shared, mainLocal, counters, syncs, stop_called,
                 stopped_reader, ser, is_open, gps_utc, line, worker_call,
                 detail>>

\* Lines 264-273 and 277-278: serial.Serial(...) returns a new open object,
\* which is stored in self.ser and read from, or raises, and the worker
\* goes to sleep(3).
OpenPort(w) ==
  /\ Running
  /\ pc[w] = "open"
  /\ tried' = [tried EXCEPT ![w] = TRUE]
  /\ \/ /\ nhandles < MaxHandles
        /\ nhandles' = nhandles + 1
        /\ ser' = nhandles + 1
        /\ is_open' = is_open \cup {nhandles + 1}
        /\ fresh' = [fresh EXCEPT ![w] = TRUE]
        /\ rdh' = [rdh EXCEPT ![w] = nhandles + 1]
        /\ pc' = [pc EXCEPT ![w] = "in_read"]
     \/ /\ pc' = [pc EXCEPT ![w] = "sleep"]
        /\ UNCHANGED <<nhandles, ser, is_open, fresh, rdh>>
  /\ UNCHANGED <<shared, mainLocal, nworkers, nfix, syncs, stop_called,
                 stopped_reader, first_valid_time_received, gps_utc, line,
                 worker_call, detail>>

\* time.sleep(3) at lines 272 and 325 ends; `continue` or the end of the
\* loop body leads back to the loop condition.
Backoff(w) ==
  /\ Running
  /\ pc[w] = "sleep"
  /\ pc' = [pc EXCEPT ![w] = "top"]
  /\ tried' = [tried EXCEPT ![w] = FALSE]
  /\ UNCHANGED <<shared, mainLocal, counters, syncs, fresh, stop_called,
                 stopped_reader, ser, is_open, workerLocal, detail>>

\* Lines 278-294: readline() returns or raises.  An open port delivers a
\* line or raises an I/O error; a port closed under the read raises or
\* delivers nothing.  A line that is dropped without effect ends the
\* iteration; pynmea2.parse has run on the others.
ReadReturn(w) ==
  /\ Running
  /\ pc[w] = "in_read"
  /\ rdh' = [rdh EXCEPT ![w] = None]
  /\ \/ /\ ReadError(w)
        /\ UNCHANGED <<line, nfix>>
     \/ /\ \E k \in LineKinds :
             /\ rdh[w] \notin is_open => k = "empty"
             /\ k = "fix" => nfix < MaxFix
             /\ nfix' = IF k = "fix" THEN nfix + 1 ELSE nfix
             /\ IF k \in Skipped
                  THEN /\ pc' = [pc EXCEPT ![w] = "top"]
                       /\ UNCHANGED line
                  ELSE /\ pc' = [pc EXCEPT ![w] = "decode"]
                       /\ line' = [line EXCEPT ![w] = Line(k, nfix + 1)]
        /\ UNCHANGED <<ser, is_open>>
  /\ UNCHANGED <<shared, mainLocal, nworkers, nhandles, history,
                 first_valid_time_received, gps_utc, worker_call, detail>>

\* Lines 291-295 and 313-314 with convert_nmea_to_datetime (339-343).  The
\* ParseError of a rejected line is passed over (line 314).  A field that
\* does not convert is handed on as text and makes datetime.combine raise,
\* which is no ParseError and reaches the handler of line 316.  A fix is
\* stored in self.last_gps_utc.
Decode(w) ==
  /\ Running
  /\ pc[w] = "decode"
  /\ line' = [line EXCEPT ![w] = NoLine]
  /\ IF line[w].kind = "fix"
       THEN /\ last_gps_utc' = line[w].utc
            /\ gps_utc' = [gps_utc EXCEPT ![w] = line[w].utc]
            /\ pc' = [pc EXCEPT ![w] = "label"]
            /\ UNCHANGED <<ser, is_open>>
       ELSE IF line[w].kind = "badfield"
         THEN /\ ReadError(w)
              /\ UNCHANGED <<last_gps_utc, gps_utc>>
         ELSE /\ pc' = [pc EXCEPT ![w] = "top"]
              /\ UNCHANGED <<last_gps_utc, gps_utc, ser, is_open>>
  /\ UNCHANGED <<app_running, keep_reading, read_thread, gps_time_str,
                 last_delta_sec, auto_connect_var, use_local_time_var,
                 config_interval, mainLocal, counters, history,
                 first_valid_time_received, rdh, worker_call, detail>>

\* Lines 297-298: the label shows the fix.
SetLabel(w) ==
  /\ Running
  /\ pc[w] = "label"
  /\ gps_time_str' = gps_utc[w]
  /\ pc' = [pc EXCEPT ![w] = "delta"]
  /\ UNCHANGED <<app_running, keep_reading, read_thread, last_gps_utc,
                 last_delta_sec, auto_connect_var, use_local_time_var,
                 config_interval, mainLocal, counters, history, ser, is_open,
                 workerLocal, detail>>

\* The condition without the first-fix flag, and with a flag that every
\* open clears.
AutoSyncDue_NoFlag(w) == auto_connect_var

AutoSyncDue_PerOpen(w) == auto_connect_var /\ fresh[w]

\* Line 310: the condition of the auto-sync on the first fix.
AutoSyncDue(w) == auto_connect_var /\ ~first_valid_time_received[w]

\* Lines 301-311: the offset of the fix is stored; then either
\* sync_time(gps_utc) is called in this thread, which enters the clock call
\* (lines 378-387), or the iteration ends.
StoreDelta(w) ==
  /\ Running
  /\ pc[w] = "delta"
  /\ last_delta_sec' = gps_utc[w]
  /\ fresh' = [fresh EXCEPT ![w] = FALSE]
  /\ IF AutoSyncDue(w)
       THEN /\ pc' = [pc EXCEPT ![w] = "in_clock"]
            /\ syncs' = [syncs EXCEPT ![w] = @ + 1]
            /\ worker_call' = [worker_call EXCEPT ![w] = SetTimeCall(gps_utc[w])]
            /\ UNCHANGED gps_utc
       ELSE /\ pc' = [pc EXCEPT ![w] = "top"]
            /\ gps_utc' = [gps_utc EXCEPT ![w] = None]
            /\ UNCHANGED <<syncs, worker_call>>
  /\ UNCHANGED <<app_running, keep_reading, read_thread, last_gps_utc,
                 gps_time_str, auto_connect_var, use_local_time_var,
                 config_interval, mainLocal, counters, stop_called,
                 stopped_reader, tried, ser, is_open,
                 first_valid_time_received, line, rdh, detail>>

\* Lines 383-390 and 312, in the worker: SetLocalTime/SetSystemTime returns
\* or raises (caught and shown by sync_time); then the flag is set.
WorkerClockReturn(w) ==
  /\ Running
  /\ pc[w] = "in_clock"
  /\ first_valid_time_received' = [first_valid_time_received EXCEPT ![w] = TRUE]
  /\ gps_utc' = [gps_utc EXCEPT ![w] = None]
  /\ worker_call' = [worker_call EXCEPT ![w] = NoCall]
  /\ pc' = [pc EXCEPT ![w] = "top"]
  /\ UNCHANGED <<shared, mainLocal, counters, history, ser, is_open, line,
                 rdh, detail>>

(***************************************************************************)
(* The main context: the handlers Tk runs one at a time.                   *)
(***************************************************************************)

\* What the Sync Interval entry may hold when Apply is pressed.
IntervalTexts == {"30", "nan", "inf", "abc"}

\* Line 397: float() of the entry's text raises ValueError for text that is
\* no number, and accepts "nan" and "inf".
float_of(text) == IF text = "abc" THEN "ValueError" ELSE text

\* Line 407: int(minutes * 60 * 1000) raises ValueError for a NaN and
\* OverflowError for an infinity.
interval_ms(minutes) ==
  IF minutes = "nan" THEN "ValueError"
  ELSE IF minutes = "inf" THEN "OverflowError"
  ELSE "ms"

\* schedule_auto_sync, lines 405-408: the timers pending after the call;
\* none is added when line 407 raises.
schedule_auto_sync ==
  IF interval_ms(config_interval) = "ms" THEN timers + 1 ELSE timers

\* The end of a handler: auto_sync_callback (line 412) arms the next
\* one-shot timer after its sync_time call; on_close (line 447) destroys the
\* root window, which ends mainloop and the process.
Return ==
  /\ mainPc' = IF mainCtx = "on_close" THEN "exited" ELSE "idle"
  /\ mainCtx' = "none"
  /\ timers' = IF mainCtx = "timer" THEN schedule_auto_sync ELSE timers
  /\ sync_utc' = None
  /\ main_call' = NoCall

\* connect_to_gps, lines 212-229.
connect_to_gps ==
  /\ mainPc = "idle"
  /\ \E selected \in BOOLEAN :
       IF is_alive(read_thread)
         THEN UNCHANGED vars
         ELSE IF ~selected
           THEN /\ mainPc' = "no_port"
                /\ mainCtx' = "connect"
                /\ UNCHANGED <<shared, timers, sync_utc, main_call, counters,
                               history, ser, is_open, pc, workerLocal, detail>>
           ELSE /\ nworkers < MaxWorkers
                /\ nworkers' = nworkers + 1
                /\ keep_reading' = TRUE
                /\ read_thread' = nworkers + 1
                /\ pc' = [pc EXCEPT ![nworkers + 1] = "top"]
                /\ UNCHANGED <<app_running, last_gps_utc, gps_time_str,
                               last_delta_sec, auto_connect_var,
                               use_local_time_var, config_interval, mainLocal,
                               nhandles, nfix, history, ser, is_open,
                               workerLocal, detail>>

\* Lines 232-234, entered from the DISCONNECT button or from on_close
\* (lines 445-446), which first clears app_running.
StopRequest(ctx) ==
  /\ mainPc = "idle"
  /\ mainCtx' = ctx
  /\ app_running' = IF ctx = "on_close" THEN FALSE ELSE app_running
  /\ keep_reading' = FALSE
  /\ mainPc' = IF is_alive(read_thread) THEN "join" ELSE "close"
  /\ stop_called' = TRUE
  /\ stopped_reader' = IF is_alive(read_thread) /\ pc[read_thread] = "in_read"
                         THEN read_thread ELSE stopped_reader
  /\ UNCHANGED <<read_thread, last_gps_utc, gps_time_str, last_delta_sec,
                 auto_connect_var, use_local_time_var, config_interval,
                 timers, sync_utc, main_call, counters, syncs, fresh, tried,
                 ser, is_open, pc, workerLocal, detail>>

disconnect_from_gps == StopRequest("disconnect")

on_close == StopRequest("on_close")

\* Line 234: join(timeout=2.0) returns when the worker has exited, or when
\* the two seconds are over while it is still alive.
JoinReturn ==
  /\ mainPc = "join"
  /\ mainPc' = "close"
  /\ UNCHANGED <<shared, timers, mainCtx, sync_utc, main_call, counters,
                 history, ser, is_open, pc, workerLocal, detail>>

\* Lines 236-244: self.ser is closed if it is open, then cleared together
\* with self.read_thread.
CloseAndClear ==
  /\ mainPc = "close"
  /\ is_open' = is_open \ {ser}
  /\ ser' = None
  /\ read_thread' = None
  /\ Return
  /\ UNCHANGED <<app_running, keep_reading, last_gps_utc, gps_time_str,
                 last_delta_sec, auto_connect_var, use_local_time_var,
                 config_interval, counters, history, pc, workerLocal, detail>>

\* A label test that lets the placeholder text through.
LabelHasUtc_Always == TRUE

\* Line 368: the label holds a formatted fix.
LabelHasUtc == gps_time_str # None

\* A sync_time that uses the stored fix only while connected.
SyncStart_Connected(ctx) ==
  /\ mainPc = "idle"
  /\ mainCtx' = ctx
  /\ IF last_gps_utc # None /\ read_thread # None
       THEN /\ mainPc' = "in_clock"
            /\ sync_utc' = last_gps_utc
            /\ main_call' = SetTimeCall(last_gps_utc)
       ELSE /\ mainPc' = "sync_label"
            /\ sync_utc' = None
            /\ UNCHANGED main_call
  /\ UNCHANGED <<shared, counters, history, ser, is_open, pc, workerLocal,
                 detail>>

\* sync_time(None), lines 363-365 and 378-387: with a fix stored, it is the
\* instant to apply and the clock call is entered; without one, the label
\* is looked at next.
SyncStart(ctx) ==
  /\ mainPc = "idle"
  /\ mainCtx' = ctx
  /\ sync_utc' = last_gps_utc
  /\ IF last_gps_utc # None
       THEN /\ mainPc' = "in_clock"
            /\ main_call' = SetTimeCall(last_gps_utc)
       ELSE /\ mainPc' = "sync_label"
            /\ UNCHANGED main_call
  /\ UNCHANGED <<shared, counters, history, ser, is_open, pc, workerLocal,
                 detail>>

\* The SYNC to GPS button (line 177).
sync_time ==
  /\ SyncStart("button")
  /\ UNCHANGED timers

\* auto_sync_callback, lines 410-411: a pending timer fires.
auto_sync_callback ==
  /\ timers > 0
  /\ timers' = timers - 1
  /\ SyncStart("timer")

\* Lines 367-376: the label is parsed and the clock call entered with the
\* instant it shows, or the error box is shown.
SyncLabel ==
  /\ mainPc = "sync_label"
  /\ IF LabelHasUtc
       THEN /\ mainPc' = "in_clock"
            /\ sync_utc' = gps_time_str
            /\ main_call' = SetTimeCall(gps_time_str)
       ELSE /\ mainPc' = "no_fix"
            /\ UNCHANGED <<sync_utc, main_call>>
  /\ UNCHANGED <<shared, timers, mainCtx, counters, history, ser, is_open,
                 pc, workerLocal, detail>>

\* What a call of SetLocalTime/SetSystemTime through ctypes can do
\* (lines 58-61 and 74-77): return nonzero, return zero because the system
\* refused the change, or raise.
ClockResults == {"ok", "refused", "raised"}

\* Lines 383-390: the call returns, its return value is dropped and the
\* status line "System time set ..." is written next, or it raises and the
\* error box is shown.
ClockReturn ==
  /\ mainPc = "in_clock"
  /\ \E r \in ClockResults :
       /\ main_call' = [main_call EXCEPT !.result = r]
       /\ mainPc' = IF r = "raised" THEN "clock_failed" ELSE "logged"
  /\ UNCHANGED <<shared, timers, mainCtx, sync_utc, counters, history, ser,
                 is_open, pc, workerLocal, detail>>

\* Lines 384 and 388: the status line is written and sync_time returns.
StatusLogged ==
  /\ mainPc = "logged"
  /\ Return
  /\ UNCHANGED <<shared, counters, history, ser, is_open, pc, workerLocal,
                 detail>>

\* The error box of lines 219, 369, 375, 390 or 403 is dismissed.
ErrorBoxClosed ==
  /\ mainPc \in {"no_port", "no_fix", "clock_failed", "bad_interval"}
  /\ Return
  /\ UNCHANGED <<shared, counters, history, ser, is_open, pc, workerLocal,
                 detail>>

\* The check button of lines 153-157.
ToggleAutoConnect ==
  /\ mainPc = "idle"
  /\ auto_connect_var' = ~auto_connect_var
  /\ UNCHANGED <<app_running, keep_reading, read_thread, last_gps_utc,
                 gps_time_str, last_delta_sec, use_local_time_var,
                 config_interval, mainLocal, counters, history, ser, is_open,
                 pc, workerLocal, detail>>

\* The check button of lines 159-163.
ToggleUseLocalTime ==
  /\ mainPc = "idle"
  /\ use_local_time_var' = ~use_local_time_var
  /\ UNCHANGED <<app_running, keep_reading, read_thread, last_gps_utc,
                 gps_time_str, last_delta_sec, auto_connect_var,
                 config_interval, mainLocal, counters, history, ser, is_open,
                 pc, workerLocal, detail>>

\* apply_auto_sync_interval, lines 395-403, with the entry holding `text`:
\* the number is stored in self.config and a timer is scheduled with it.  A
\* ValueError of line 397 or of line 407 is shown in an error box; the
\* OverflowError of line 407 is not caught and ends the handler.
apply_auto_sync_interval ==
  /\ mainPc = "idle"
  /\ \E text \in IntervalTexts :
       LET minutes == float_of(text) IN
       IF minutes = "ValueError"
         THEN /\ mainPc' = "bad_interval"
              /\ mainCtx' = "apply"
              /\ UNCHANGED <<config_interval, timers>>
         ELSE /\ config_interval' = minutes
              /\ IF interval_ms(minutes) = "ms"
                   THEN /\ timers < MaxTimers
                        /\ timers' = schedule_auto_sync
                        /\ UNCHANGED <<mainPc, mainCtx>>
                   ELSE /\ mainPc' = IF interval_ms(minutes) = "ValueError"
                                       THEN "bad_interval" ELSE "idle"
                        /\ mainCtx' = IF interval_ms(minutes) = "ValueError"
                                        THEN "apply" ELSE "none"
                        /\ UNCHANGED timers
  /\ UNCHANGED <<app_running, keep_reading, read_thread, last_gps_utc,
                 gps_time_str, last_delta_sec, auto_connect_var,
                 use_local_time_var, sync_utc, main_call, counters, history,
                 ser, is_open, pc, workerLocal, detail>>

\* The worker and the main context interleaved.  The pending-timer count
\* stays at the one timer __init__ arms: it only enables auto_sync_callback.
Next ==
  \/ connect_to_gps
  \/ disconnect_from_gps
  \/ on_close
  \/ JoinReturn
  \/ CloseAndClear
  \/ sync_time
  \/ auto_sync_callback
  \/ SyncLabel
  \/ ClockReturn
  \/ StatusLogged
  \/ ErrorBoxClosed
  \/ ToggleAutoConnect
  \/ \E w \in Workers : LoopTop(w)
  \/ \E w \in Workers : OpenPort(w)
  \/ \E w \in Workers : Backoff(w)
  \/ \E w \in Workers : ReadReturn(w)
  \/ \E w \in Workers : Decode(w)
  \/ \E w \in Workers : SetLabel(w)
  \/ \E w \in Workers : StoreDelta(w)
  \/ \E w \in Workers : WorkerClockReturn(w)

Spec == Init /\ [][Next]_vars

(***************************************************************************)
(* The scheduling of syncs: the same program from the state it is in when  *)
(* every thread but the last has run and ended in an earlier session, so   *)
(* that one session remains, with the interval entry and the local-time    *)
(* check button in use.                                                    *)
(***************************************************************************)

InitSync ==
  /\ InitApp
  /\ InitDetail
  /\ pc = [w \in Workers |-> IF w < MaxWorkers THEN "dead" ELSE "unborn"]
  /\ nworkers = MaxWorkers - 1
  /\ stop_called = (MaxWorkers > 1)

NextSync ==
  \/ connect_to_gps
  \/ disconnect_from_gps
  \/ on_close
  \/ JoinReturn
  \/ CloseAndClear
  \/ sync_time
  \/ auto_sync_callback
  \/ SyncLabel
  \/ ClockReturn
  \/ StatusLogged
  \/ ErrorBoxClosed
  \/ ToggleAutoConnect
  \/ ToggleUseLocalTime
  \/ apply_auto_sync_interval
  \/ \E w \in Workers : LoopTop(w)
  \/ \E w \in Workers : OpenPort(w)
  \/ \E w \in Workers : Backoff(w)
  \/ \E w \in Workers : ReadReturn(w)
  \/ \E w \in Workers : Decode(w)
  \/ \E w \in Workers : SetLabel(w)
  \/ \E w \in Workers : StoreDelta(w)
  \/ \E w \in Workers : WorkerClockReturn(w)

SpecSync == InitSync /\ [][NextSync]_vars

(***************************************************************************)
(* The decoder: lines 281-314 and convert_nmea_to_datetime (339-343)       *)
(* applied to the text of one line after another, in one thread.           *)
(***************************************************************************)

\* The text of a field: empty, digits that convert to the value val, or
\* text that does not convert.
FieldTexts(vals) ==
  {[text |-> "empty", val |-> 0], [text |-> "garbled", val |-> 0]}
    \cup {[text |-> "digits", val |-> v] : v \in vals}

\* The stripped text of a line: empty, or a sentence with its identifier,
\* whether its checksum matches, its status field and its date and time
\* fields.
Lines ==
  {[id |-> "", sum |-> FALSE, status |-> "V",
    date |-> [text |-> "empty", val |-> 0],
    time |-> [text |-> "empty", val |-> 0]]}
  \cup [id : {"$GPGGA", "$GPRMC", "$GNRMC"}, sum : BOOLEAN,
        status : {"A", "V"}, date : FieldTexts(1..MaxDate),
        time : FieldTexts(0..MaxTime)]

\* Line 289.
startswith_rmc(l) == l.id \in {"$GPRMC", "$GNRMC"}

\* Line 292: the validity flag of an RMC sentence is its status field.
is_valid_Always(msg) == TRUE

is_valid(msg) == msg.status = "A"

\* A field read through pynmea2: None when it is empty, the converted value
\* when it converts, and the text itself when it does not.
field_value(f, type) ==
  IF f.text = "empty" THEN [type |-> "none", val |-> 0]
  ELSE IF f.text = "garbled" THEN [type |-> "str", val |-> 0]
  ELSE [type |-> type, val |-> f.val]

datestamp(msg) == field_value(msg.date, "date")
timestamp(msg) == field_value(msg.time, "time")

\* Line 341: the truth value of a field value; None is false, while text
\* that is not empty, a date and a time of day (midnight included) are true.
truthy(v) == v.type # "none"

\* datetime.datetime.combine (line 342) raises TypeError unless it is given
\* a date and a time.
combine(d, t) ==
  IF d.type = "date" /\ t.type = "time"
    THEN [type |-> "datetime", val |-> d.val * (MaxTime + 1) + t.val]
    ELSE [type |-> "TypeError", val |-> 0]

\* convert_nmea_to_datetime, lines 339-343.
convert_nmea_to_datetime(rmc_msg) ==
  IF truthy(datestamp(rmc_msg)) /\ truthy(timestamp(rmc_msg))
    THEN combine(datestamp(rmc_msg), timestamp(rmc_msg))
    ELSE [type |-> "none", val |-> 0]

\* Lines 281-294 and 313-316: what becomes of a line.  pynmea2.parse raises
\* ParseError when the checksum does not match.
Kind(l) ==
  IF l.id = "" THEN "empty"
  ELSE IF ~startswith_rmc(l) THEN "other"
  ELSE IF ~l.sum THEN "badsum"
  ELSE IF ~is_valid(l) THEN "invalid"
  ELSE IF convert_nmea_to_datetime(l).type = "TypeError" THEN "badfield"
  ELSE IF convert_nmea_to_datetime(l).type = "none" THEN "nodate"
  ELSE "fix"

\* The thread whose loop the decoder runs in.
DecoderThread == MaxWorkers

\* readline() returns the next line (line 278).
NextLine ==
  /\ outcome # "none"
  /\ raw' \in Lines
  /\ outcome' = "none"
  /\ UNCHANGED <<shared, mainLocal, counters, history, ser, is_open, pc,
                 workerLocal, bridge>>

\* Lines 281-316 for the line in hand: a fix is stored with its label and
\* offset and, on the first one with auto-sync enabled, sync_time is called
\* with it; every other line changes nothing.
LoopBody ==
  /\ outcome = "none"
  /\ IF Kind(raw) = "fix"
       THEN /\ last_gps_utc' = convert_nmea_to_datetime(raw).val
            /\ gps_time_str' = convert_nmea_to_datetime(raw).val
            /\ last_delta_sec' = convert_nmea_to_datetime(raw).val
            /\ outcome' = IF AutoSyncDue(DecoderThread)
                            THEN "synced" ELSE "stored"
            /\ first_valid_time_received' =
                 [first_valid_time_received EXCEPT ![DecoderThread] =
                    @ \/ auto_connect_var]
       ELSE /\ outcome' = IF Kind(raw) = "badfield" THEN "read_error"
                          ELSE IF Kind(raw) = "badsum" THEN "parse_error"
                          ELSE "skipped"
            /\ UNCHANGED <<last_gps_utc, gps_time_str, last_delta_sec,
                           first_valid_time_received>>
  /\ UNCHANGED <<app_running, keep_reading, read_thread, auto_connect_var,
                 use_local_time_var, config_interval, mainLocal, counters,
                 history, ser, is_open, pc, gps_utc, line, rdh, worker_call,
                 raw, bridge>>

InitDecode ==
  /\ InitApp
  /\ InitBridge
  /\ pc = [w \in Workers |-> "unborn"]
  /\ nworkers = 0
  /\ stop_called = FALSE
  /\ raw \in Lines
  /\ outcome = "none"

NextDecode ==
  \/ NextLine
  \/ LoopBody

SpecDecode == InitDecode /\ [][NextDecode]_vars

(***************************************************************************)
(* The clock bridge and the offset: lines 117-120, 276-287, 300-307 and    *)
(* perf_to_system_time (327-337), for the reads of one thread.  Ticks and  *)
(* instants are whole numbers of one unit; t_mid is kept as twice its      *)
(* value, so that a half is a whole number; an offset is kept as a record, *)
(* so that zero is no None.                                                *)
(***************************************************************************)

\* The perf_counter value at which the model stops the clock.
MaxTick == 5

\* datetime.timedelta(seconds=x) (line 335) rounds x to a whole unit, a
\* half to the even neighbour; n2 is twice x.
timedelta_of(n2) ==
  IF n2 % 2 = 0 THEN n2 \div 2
  ELSE IF ((n2 - 1) \div 2) % 2 = 0 THEN (n2 - 1) \div 2
  ELSE (n2 - 1) \div 2 + 1

\* An estimate that reads the system clock as it is now.
perf_to_system_time_Now(pc_time2) ==
  time_base + timedelta_of(pc_time2 - 2 * perf_base) + clock_err

\* perf_to_system_time, lines 327-337; pc_time2 is twice pc_time.
perf_to_system_time(pc_time2) ==
  time_base + timedelta_of(pc_time2 - 2 * perf_base)

\* The local wall clock at UTC instant u.
local(u) == u + utcoffset(u)

\* The span in which datetime looks for the other reading of a local time.
max_fold_seconds == 24

\* naive.astimezone() (line 303) takes a naive date-time t as local time
\* and solves t = local(u) for the instant u, as datetime._mktime does
\* with fold = 0.
mktime(t) ==
  LET a == local(t) - t
      u1 == t - a
      t1 == local(u1)
      b == IF t1 = t THEN local(u1 - max_fold_seconds)
                            - (u1 - max_fold_seconds)
                     ELSE t1 - u1
      u2 == t - b
  IN  IF t1 = t /\ a = b THEN u1
      ELSE IF local(u2) = t THEN u2
      ELSE IF t1 = t THEN u1
      ELSE IF u1 > u2 THEN u1 ELSE u2

\* Lines 301-306: both date-times as instants, and their difference.
dt_sec(gps, system_time) == [sec |-> gps - mktime(system_time)]

\* Time passes.
Tick ==
  /\ perf < MaxTick
  /\ perf' = perf + 1
  /\ UNCHANGED <<shared, mainLocal, counters, history, ser, is_open, pc,
                 workerLocal, raw, outcome, perf_base, time_base, utc_base,
                 t_start, t_end, t_mid, system_time_at_mid, prev_mid,
                 clock_err>>

\* Line 277: the tick before the read.
ReadStart ==
  /\ t_start = 0 \/ t_end # 0
  /\ t_start' = perf
  /\ t_end' = 0
  /\ UNCHANGED <<shared, mainLocal, counters, history, ser, is_open, pc,
                 workerLocal, raw, outcome, perf_base, time_base, utc_base,
                 perf, t_mid, system_time_at_mid, prev_mid, clock_err>>

\* Lines 279-307: the tick after the read, the mid-point and its wall-clock
\* estimate; when the line is a fix with UTC instant g, it is stored with
\* its offset.
ReadEnd ==
  /\ t_start # 0 /\ t_end = 0
  /\ t_end' = perf
  /\ t_mid' = t_start + perf
  /\ system_time_at_mid' = perf_to_system_time(t_start + perf)
  /\ prev_mid' = [t_mid |-> t_mid, at |-> system_time_at_mid]
  /\ \/ UNCHANGED <<last_gps_utc, last_delta_sec>>
     \/ \E g \in Fixes :
          /\ last_gps_utc' = g
          /\ last_delta_sec' = dt_sec(g, perf_to_system_time(t_start + perf))
  /\ UNCHANGED <<app_running, keep_reading, read_thread, gps_time_str,
                 auto_connect_var, use_local_time_var, config_interval,
                 mainLocal, counters, history, ser, is_open, pc, workerLocal,
                 raw, outcome, perf_base, time_base, utc_base, perf, t_start,
                 clock_err>>

\* A sync has set the system clock forward or back.
ClockSet ==
  /\ \E e \in {-1, 0, 1} : clock_err' = e /\ e # clock_err
  /\ UNCHANGED <<shared, mainLocal, counters, history, ser, is_open, pc,
                 workerLocal, raw, outcome, perf_base, time_base, utc_base,
                 perf, t_start, t_end, t_mid, system_time_at_mid, prev_mid>>

\* Lines 117-120: the anchor is taken once, at a tick of at least 1, when
\* the system clock shows UTC instant utc_base, in standard time.
InitClock ==
  /\ InitApp
  /\ InitLine
  /\ pc = [w \in Workers |-> "unborn"]
  /\ nworkers = 0
  /\ stop_called = FALSE
  /\ perf_base \in 1..2
  /\ perf = perf_base
  /\ utc_base \in 0..1
  /\ time_base = local(utc_base)
  /\ t_start = 0
  /\ t_end = 0
  /\ t_mid = 0
  /\ system_time_at_mid = 0
  /\ prev_mid = NoMid
  /\ clock_err = 0

NextClock ==
  \/ Tick
  \/ ReadStart
  \/ ReadEnd
  \/ ClockSet

SpecClock == InitClock /\ [][NextClock]_vars

(***************************************************************************)
(* Properties.                                                             *)
(***************************************************************************)

Alive == {w \in Workers : is_alive(w)}

\* A sync_time call without override is in progress in the main context.
SyncNoOverride == mainCtx \in {"button", "timer"}

\* C1: while no fix has ever been recorded (last_gps_utc is none and the
\* label was never set), a sync_time call without override, from the button
\* or from the periodic timer, is either still resolving the instant or
\* showing the "no valid GPS time" error: it is never inside a clock-setting
\* call and never reports a clock failure.
C1_NoFixNoClock ==
  (SyncNoOverride /\ last_gps_utc = None /\ gps_time_str = None)
    => mainPc \in {"sync_label", "no_fix"}

\* The periodic timer's sync shows the error while a worker is reading and
\* no fix has been decoded yet.
C1_Witness ==
  /\ mainPc = "no_fix"
  /\ mainCtx = "timer"
  /\ last_gps_utc = None
  /\ \E w \in Workers : pc[w] = "in_read"

\* C2: the clock-setting call is made only by the main context, never by a
\* worker, and no two executions are inside it at the same time.
C2_ClockOnlyMainSerial ==
  /\ \A w \in Workers : pc[w] # "in_clock"
  /\ Cardinality({w \in Workers : pc[w] = "in_clock"})
       + (IF mainPc = "in_clock" THEN 1 ELSE 0) <= 1

\* C3: within one connection session (one worker started by connect_to_gps)
\* the acquisition loop calls sync_time at most once, however many fixes it
\* decodes.
C3_AtMostOneAutoSync == \A w \in Workers : syncs[w] <= 1

\* A worker that has made its sync is storing a later fix while auto-sync
\* is enabled.
C3_Witness ==
  \E w \in Workers :
    /\ pc[w] = "delta"
    /\ syncs[w] = 1
    /\ first_valid_time_received[w]
    /\ auto_connect_var

\* C4, as claimed: with auto-sync enabled, the first fix decoded after every
\* transition into Open (the initial open and every reopen) triggers a
\* sync.
C4_SyncAfterEveryOpen ==
  [][\A w \in Workers :
       (pc[w] = "delta" /\ pc'[w] # "delta" /\ auto_connect_var /\ fresh[w])
         => pc'[w] = "in_clock"]_vars

\* C4, amended: within one connection session, a fix triggers a sync
\* exactly when auto-sync is enabled at that moment and the session has
\* made no sync yet; a reopen after an error does not arm it again.
C4_SyncOncePerSession ==
  [][\A w \in Workers :
       (pc[w] = "delta" /\ pc'[w] # "delta")
         => (pc'[w] = "in_clock" <=> (auto_connect_var /\ syncs[w] = 0))]_vars

\* A worker that has made its sync and has reopened the device since is
\* storing the first fix of the new connection, with auto-sync enabled.
C4_Witness ==
  \E w \in Workers :
    /\ pc[w] = "delta"
    /\ fresh[w]
    /\ syncs[w] = 1
    /\ auto_connect_var

\* C5: whenever the main context can run a handler, last_gps_utc and
\* last_delta_sec come from the same fix.
C5_FixAndOffsetTogether ==
  mainPc = "idle" => last_delta_sec = last_gps_utc

\* C6: at most one acquisition worker is alive at any time.
C6_OneWorker == Cardinality(Alive) <= 1

\* C7: disconnect_from_gps closes the open handle only once the worker it
\* joined has exited.
C7_CloseAfterWorkerExit ==
  [][(mainPc = "close" /\ mainPc' # "close" /\ ser \in is_open)
       => ~is_alive(read_thread)]_vars

\* C8: a worker that was blocked in a read when stop was requested leaves
\* the loop without attempting another open.
C8_NoOpenAfterStop ==
  \A w \in Workers : stopped_reader = w => pc[w] # "open"

\* C9: the acquisition loop ends only on an explicit stop request: as long
\* as neither disconnect_from_gps nor on_close has been called, no worker
\* has exited, whatever open failures, read failures and bad lines occurred.
C9_ExitOnlyOnStop == (\E w \in Workers : pc[w] = "dead") => stop_called

\* A worker is in its backoff after a read error on a device it had opened,
\* and no stop was ever requested.
C9_Witness ==
  /\ ~stop_called
  /\ nhandles >= 1
  /\ ser = None
  /\ \E w \in Workers : pc[w] = "sleep"

\* C10: a sentence that fails to decode (pynmea2.parse rejects it, or a
\* field does not convert) is skipped: the handle stays open and stored,
\* no backoff is taken, and fix and offset are unchanged.
C10_DecodeFailureSkipped ==
  [][\A w \in Workers :
       (pc[w] = "decode" /\ line[w].kind \in {"badsum", "badfield"}
          /\ pc'[w] # "decode")
         => /\ pc'[w] = "top"
            /\ ser' = ser
            /\ is_open' = is_open
            /\ last_gps_utc' = last_gps_utc
            /\ last_delta_sec' = last_delta_sec]_vars

\* The line the claim accepts: an RMC identifier, a matching checksum and
\* fields that convert, the validity flag set, and both date and time.
Accepted(l) ==
  /\ l.id \in {"$GPRMC", "$GNRMC"}
  /\ l.sum
  /\ l.status = "A"
  /\ l.date.text = "digits"
  /\ l.time.text = "digits"

\* C11: a line replaces the current fix and offset if and only if it starts
\* with $GPRMC or $GNRMC, parses, has its validity flag set and carries both
\* a date and a time; the stored instant is then the combination of the two
\* fields; every other line leaves last_gps_utc and last_delta_sec unchanged
\* and triggers no sync.
C11_AcceptIff ==
  [][(outcome = "none" /\ outcome' # "none") =>
       IF Accepted(raw)
         THEN /\ outcome' \in {"stored", "synced"}
              /\ last_gps_utc' = raw.date.val * (MaxTime + 1) + raw.time.val
              /\ last_delta_sec' = last_gps_utc'
         ELSE /\ outcome' \notin {"stored", "synced"}
              /\ UNCHANGED <<last_gps_utc, last_delta_sec,
                             first_valid_time_received>>]_vars

\* A fix whose time of day is midnight has replaced an earlier fix.
C11_Witness ==
  /\ outcome = "stored"
  /\ Accepted(raw)
  /\ raw.time.val = 0
  /\ raw.id = "$GNRMC"
  /\ last_gps_utc = raw.date.val * (MaxTime + 1)
  /\ first_valid_time_received[DecoderThread]

\* C12: at most one periodic-sync timer is pending at any time: applying an
\* interval replaces the pending one-shot timer instead of adding one.
C12_OneTimerPending == timers <= 1

\* C13: every firing of the periodic timer ends with exactly one new
\* one-shot timer armed, whatever its sync_time call did.
C13_RearmedAfterFiring ==
  [][(mainCtx = "timer" /\ mainCtx' = "none") => timers' = timers + 1]_vars

\* C14: when the clock-setting call of a sync fails, the failure is
\* reported: the call that did not set the clock ends in the error box.
C14_FailureReported ==
  [][(mainPc = "in_clock" /\ main_call'.result \in {"refused", "raised"})
       => mainPc' = "clock_failed"]_vars

\* The call the claim expects for the resolved instant u: the local-time
\* operation with u shifted by the zone offset, or the UTC operation with u.
ExpectedCall(u) ==
  IF use_local_time_var
    THEN [op |-> "local", t |-> u + utcoffset(u), result |-> "pending"]
    ELSE [op |-> "utc", t |-> u, result |-> "pending"]

\* C15: a sync that resolves a UTC instant makes exactly one clock-setting
\* call: the local-time operation with the instant shifted by the zone
\* offset when local time is configured at the moment of the call, and
\* otherwise the UTC operation with the instant unmodified.  The instant is
\* the override when one is supplied (the worker's first fix) and
\* otherwise the current fix's instant, read from last_gps_utc or, when
\* that was still none at line 364, from the label.
C15_OneCallAsConfigured ==
  [][/\ (mainPc # "in_clock" /\ mainPc' = "in_clock") =>
          /\ sync_utc' # None
          /\ sync_utc' = IF mainPc = "idle" THEN last_gps_utc
                                            ELSE gps_time_str
          /\ main_call' = ExpectedCall(sync_utc')
     /\ (mainPc = "in_clock" /\ mainPc' # "in_clock") =>
          /\ mainPc' \in {"logged", "clock_failed"}
          /\ main_call'.op = main_call.op
          /\ main_call'.t = main_call.t
     /\ (mainPc \in {"logged", "clock_failed"} /\ mainPc' # mainPc) =>
          mainPc' = "idle"
     /\ \A w \in Workers :
          /\ (pc[w] # "in_clock" /\ pc'[w] = "in_clock") =>
               /\ gps_utc[w] # None
               /\ worker_call'[w] = ExpectedCall(gps_utc[w])
          /\ (pc[w] = "in_clock" /\ pc'[w] # "in_clock") => pc'[w] = "top"
    ]_vars

\* The worker is inside the UTC operation for its first fix while the main
\* context, with local time configured since, is inside the local-time
\* operation for a fix in daylight saving time.
C15_Witness ==
  /\ mainPc = "in_clock"
  /\ main_call = [op |-> "local", t |-> sync_utc + DstOffset,
                  result |-> "pending"]
  /\ sync_utc >= DstStart
  /\ \E w \in Workers :
       /\ pc[w] = "in_clock"
       /\ worker_call[w].op = "utc"
       /\ worker_call[w].t = gps_utc[w]


\* C16: the offset stored with a fix is the fix's UTC instant minus the
\* instant of the read's mid-point, which is the instant of the anchor plus
\* the ticks elapsed since; it is the same in every zone and on every date,
\* and positive exactly when the local clock is behind GPS.
C16_OffsetIsInstantDifference ==
  [][(t_end = 0 /\ t_end' # 0 /\ last_gps_utc' # last_gps_utc)
       => last_delta_sec'
            = [sec |-> last_gps_utc'
                        - (utc_base + timedelta_of(t_mid' - 2 * perf_base))]]_vars


\* C18: the tick of a read is the arithmetic mean of the ticks sampled
\* before and after it, so it lies between them, and the wall-clock estimate
\* made from the startup anchor never decreases as the tick grows: a later
\* read never gets an earlier estimate than the read before it, also after
\* a sync has moved the system clock.
C18_MidpointMonotone ==
  t_end # 0 =>
    /\ t_mid = t_start + t_end
    /\ 2 * t_start <= t_mid /\ t_mid <= 2 * t_end
    /\ prev_mid # NoMid =>
         /\ prev_mid.t_mid <= t_mid
         /\ prev_mid.at <= system_time_at_mid
    /\ \A a, b \in (2 * perf_base)..(2 * MaxTick) :
         a <= b => perf_to_system_time(a) <= perf_to_system_time(b)

\* A second read, at a mid-point half a tick off a whole one, made after a
\* sync has moved the system clock.
C18_Witness ==
  /\ t_end # 0
  /\ prev_mid # NoMid
  /\ prev_mid.t_mid < t_mid
  /\ t_mid % 2 = 1
  /\ t_start < t_end
  /\ clock_err # 0


\* C17: a worker takes the backoff between any two of its open attempts: it
\* never stands before an open attempt having made one since its last
\* backoff.
C17_BackoffBetweenOpens ==
  \A w \in Workers : pc[w] = "open" => ~tried[w]


\* C19: a recorded fix is never cleared, and once there is one, every
\* sync_time call without override, from the button or from the timer,
\* resolves the instant of the last fix and enters the clock-setting call
\* with it.
C19_FixKept ==
  [][/\ last_gps_utc # None => last_gps_utc' # None
     /\ (last_gps_utc # None /\ mainPc = "idle"
           /\ mainCtx' \in {"button", "timer"})
          => /\ mainPc' = "in_clock"
             /\ sync_utc' = last_gps_utc
             /\ main_call' = SetTimeCall(last_gps_utc)]_vars

\* A sync without override is inside the clock-setting call with the last
\* fix after a disconnect, with no worker left.
C19_Witness ==
  /\ mainPc = "in_clock"
  /\ SyncNoOverride
  /\ last_gps_utc # None
  /\ sync_utc = last_gps_utc
  /\ read_thread = None
  /\ Alive = {}
  /\ stop_called


\* C20: no serial handle is left open after a stop: when disconnect_from_gps
\* has returned and no worker runs, no handle is open.
C20_NoHandleLeftOpen ==
  (stop_called /\ mainPc = "idle" /\ read_thread = None /\ Alive = {})
    => is_open = {}

====
